---- MODULE Spec2Model ----
(***************************************************************************)
(* Model of the document-to-audio conversion service (app/main.py,         *)
(* app/llm_cleaner.py, app/tts_engine.py).                                 *)
(*                                                                         *)
(* One conversion job is followed from its submission (convert) through    *)
(* the background task _run_conversion, statement by statement, together   *)
(* with the per-chunk tasks of clean_chunks_with_llm and the reaper task   *)
(* _periodic_cleanup.  Everything runs on one asyncio event loop: a task   *)
(* runs without interruption from one await that really suspends to the    *)
(* next.  The controller's statements are separate actions, and the        *)
(* actions of the other tasks are enabled only while the controller is at  *)
(* such a suspension point (ControllerSuspended).                          *)
(*                                                                         *)
(* Texts are sequences of character codes; code 0 is the space, code 10    *)
(* the newline, every other code is a non-whitespace character.  The       *)
(* functions of app/pdf_parser.py are operators on such texts, each        *)
(* applied to bounded inputs by a specification of its own (ChunkSpec,     *)
(* CleanTextSpec, RepeatedLinesSpec); ReaperSpec, DownloadSpec and         *)
(* VoicesSpec follow the reaper and the two read-only endpoints.           *)
(* Indices are 1-based: index i here is the code's 0-based index i-1, so   *)
(* the code's "i + 1" is written i.                                        *)
(***************************************************************************)
EXTENDS Integers, Sequences, FiniteSets, TLC

\* ---------------------------------------------------------------- bounds
\* Most chunks of a document in the job life-cycle specification (Spec).
MaxChunks == 3
\* Most chunks of a document in the cleaning-stage specification (CleanSpec).
MaxCleanChunks == 6
\* Number of clock ticks the model lets pass.
MaxTicks == 3
\* Number of GET /api/voices requests.
MaxRequests == 3
\* Most finished jobs in the store when the reaper is followed alone.
MaxStored == 2
\* Most pages given to remove_repeated_lines (beside two long documents).
MaxPages == 5
\* Longest text given to clean_text.
MaxCleanLen == 4
\* Longest text given to chunk_text, and largest max_chars.
MaxTextLen == 6
MaxMaxChars == 3

\* ------------------------------------------------------ program constants
MAX_UPLOAD_BYTES == 50 * 1024 * 1024
JOB_TTL_SECONDS == 2 * 60 * 60
\* asyncio.sleep(30 * 60) of the reaper
SweepIntervalSeconds == 30 * 60
\* asyncio.Semaphore(5)
SemaphoreSlots == 5
SUPPORTED_EXTENSIONS == {".pdf", ".docx"}

\* The clock advances in steps of half the time-to-live, so that a job is
\* seen at exactly its time-to-live (not yet expired) and beyond it.
TickSeconds == JOB_TTL_SECONDS \div 2

\* One job is followed; uuid4 gives it an id no other job has.
JobIds == {1}

\* Python's None
None == "None"

\* ------------------------------------------------------------------ texts
Space == 0

\* str.strip(): leading and trailing whitespace removed
RECURSIVE LStrip(_)
LStrip(s) == IF s # <<>> /\ Head(s) = Space THEN LStrip(Tail(s)) ELSE s

RECURSIVE RStrip(_)
RStrip(s) ==
    IF s # <<>> /\ s[Len(s)] = Space THEN RStrip(SubSeq(s, 1, Len(s) - 1)) ELSE s

Strip(s) == RStrip(LStrip(s))

\* What extract_text can return: it ends in clean_text, whose result is
\* stripped, so the text is empty or starts and ends with a non-whitespace
\* character.  A readable document is abstracted to one character code per
\* block of sentences that chunk_text packs into one chunk (the default
\* max_chars of 3000 is far above what can be enumerated).
Documents(maxn) == {<<>>} \cup {[i \in 1 .. n |-> i] : n \in 1 .. maxn}

\* extract_text raising instead of returning (an unreadable file)
ExtractRaises == <<-1>>

\* chunk_text(text) on such a document: one chunk per block, in order.
ChunksOf(text) == [i \in 1 .. Len(text) |-> <<text[i]>>]

\* The rewriting the LLM returns for a chunk, before trimming.
Rewritten(t) == <<Space>> \o [k \in 1 .. Len(t) |-> t[k] + 100] \o <<Space>>

\* Outcome of client.chat.completions.create for one chunk: an exception
\* (network, auth, malformed response), a whitespace-only completion, or a
\* rewriting of the chunk.
LLMError == <<-1>>
LLMPending == <<-2>>
LLMOutcomes(t) == {LLMError, <<Space>>, Rewritten(t)}

\* _clean_chunk's return value, given the chunk and the outcome of the call
CleanChunkNoFallback(text, outcome) ==
    IF outcome = LLMError THEN text ELSE Strip(outcome)

clean_chunk(text, outcome) ==
    IF outcome = LLMError
    THEN text
    ELSE LET cleaned == Strip(outcome) IN IF cleaned # <<>> THEN cleaned ELSE text

\* results[i] = ... in process(i)
StoreAtNextFree(results, i, v) ==
    LET free == {k \in 1 .. Len(results) : results[k] = <<>>}
        k == CHOOSE x \in free : \A y \in free : x <= y
    IN [results EXCEPT ![k] = v]

StoreResult(results, i, v) == [results EXCEPT ![i] = v]

\* The value process(i) hands to the progress sink.
SinkArgumentOffByOne(i, completed) == i + 1

SinkArgument(i, completed) == i

\* asyncio.Semaphore: value after the release at the end of "async with",
\* which runs on the normal and on the exceptional exit alike.
ReleaseUnlessFailed(sem, outcome) == IF outcome = LLMError THEN sem ELSE sem + 1

Release(sem, outcome) == sem + 1

\* ------------------------------------------------------------- chunk_text
Newline == 10
Period == 46
Letter == 97

IsSpace(c) == c \in {Space, Newline}

RECURSIVE LStripWs(_)
LStripWs(s) == IF s # <<>> /\ IsSpace(Head(s)) THEN LStripWs(Tail(s)) ELSE s

RECURSIVE RStripWs(_)
RStripWs(s) ==
    IF s # <<>> /\ IsSpace(s[Len(s)])
    THEN RStripWs(SubSeq(s, 1, Len(s) - 1))
    ELSE s

\* str.strip() on a text with spaces and newlines
StripWs(s) == RStripWs(LStripWs(s))

\* All texts of at most n characters over an alphabet
Texts(alphabet, n) == UNION {[1 .. k -> alphabet] : k \in 0 .. n}

\* [.!?]
Terminators == {Period}

\* Last index of the whitespace run that starts at i
RECURSIVE RunEnd(_, _)
RunEnd(s, i) == IF i < Len(s) /\ IsSpace(s[i + 1]) THEN RunEnd(s, i + 1) ELSE i

\* re.split(r'(?<=[.!?])\s+', text): the pieces from index start on, the
\* scan being at index i
RECURSIVE SplitFrom(_, _, _)
SplitFrom(s, i, start) ==
    IF i > Len(s)
    THEN <<SubSeq(s, start, Len(s))>>
    ELSE IF i > 1 /\ s[i - 1] \in Terminators /\ IsSpace(s[i])
         THEN LET j == RunEnd(s, i)
              IN <<SubSeq(s, start, i - 1)>> \o SplitFrom(s, j + 1, j + 1)
         ELSE SplitFrom(s, i + 1, start)

Sentences(s) == SplitFrom(s, 1, 1)

\* [sentence[i:i + max_chars] for i in range(0, len(sentence), max_chars)]
Slices(sentence, max) ==
    LET n == (Len(sentence) + max - 1) \div max
    IN [k \in 1 .. n |->
            SubSeq(sentence, (k - 1) * max + 1,
                   IF k * max < Len(sentence) THEN k * max ELSE Len(sentence))]

\* if len(current) + len(sentence) + 1 <= max_chars
FitsWithoutSeparator(current, sentence, max) ==
    Len(current) + Len(sentence) <= max

Fits(current, sentence, max) == Len(current) + Len(sentence) + 1 <= max

\* if current: chunks.append(current.strip())
Flush(chunks, current) ==
    IF current # <<>> THEN Append(chunks, StripWs(current)) ELSE chunks

\* One pass of the loop body.  In the hard-split branch nothing is assigned
\* to current: it keeps the text that was just flushed.
ChunkStep(st, sentence, max) ==
    IF Fits(st.current, sentence, max)
    THEN [chunks |-> st.chunks,
          current |-> st.current
                        \o (IF st.current # <<>> THEN <<Space>> ELSE <<>>)
                        \o sentence]
    ELSE LET flushed == Flush(st.chunks, st.current) IN
         IF Len(sentence) > max
         THEN [chunks |-> flushed \o Slices(sentence, max),
               current |-> st.current]
         ELSE [chunks |-> flushed, current |-> sentence]

RECURSIVE ChunkLoop(_, _, _, _)
ChunkLoop(sentences, k, st, max) ==
    IF k > Len(sentences)
    THEN st
    ELSE ChunkLoop(sentences, k + 1, ChunkStep(st, sentences[k], max), max)

NotBlank(c) == StripWs(c) # <<>>

chunk_text(t, max) ==
    LET st == ChunkLoop(Sentences(t), 1, [chunks |-> <<>>, current |-> <<>>], max)
    IN SelectSeq(Flush(st.chunks, st.current), NotBlank)

\* ------------------------------------------------------------- clean_text
Hyphen == 45
Digit == 52
NonAscii == 233

\* str.isalpha() is true of these characters: "a", the Roman-numeral
\* letters and the non-ASCII letter.
RomanLetters == {105, 118, 120, 108, 99, 100, 109, 73, 86, 88, 76, 67, 68, 77}
IsAlpha(c) == c \in {Letter, NonAscii} \cup RomanLetters

\* [-_=~.*•·] of the decorative-line pattern, and [-–|] of the page-number
\* pattern
Decorative == {45, 95, 61, 126, 46, 42, 8226, 183}
Bars == {45, 8211, 124}

\* str.splitlines(): the lines of t from index i on, the current line having
\* started at index start; a final newline ends the last line without
\* opening another.
RECURSIVE SplitLinesFrom(_, _, _)
SplitLinesFrom(t, i, start) ==
    IF i > Len(t)
    THEN IF start > Len(t) THEN <<>> ELSE <<SubSeq(t, start, Len(t))>>
    ELSE IF t[i] = Newline
         THEN <<SubSeq(t, start, i - 1)>> \o SplitLinesFrom(t, i + 1, i + 1)
         ELSE SplitLinesFrom(t, i + 1, start)

splitlines(t) == SplitLinesFrom(t, 1, 1)

\* "\n".join(lines)
RECURSIVE JoinLines(_)
JoinLines(lines) ==
    IF lines = <<>> THEN <<>>
    ELSE IF Len(lines) = 1 THEN lines[1]
    ELSE lines[1] \o <<Newline>> \o JoinLines(Tail(lines))

\* Number of leading characters of s that are digits
RECURSIVE DigitPrefix(_)
DigitPrefix(s) ==
    IF s # <<>> /\ Head(s) = Digit THEN 1 + DigitPrefix(Tail(s)) ELSE 0

Drop(s, n) == SubSeq(s, n + 1, Len(s))

\* re.fullmatch(r'[-–|]?\s*\d{1,4}\s*[-–|]?', line)
MatchesFramedNumber(line) ==
    LET a == IF line # <<>> /\ Head(line) \in Bars THEN Tail(line) ELSE line
        b == LStripWs(a)
        d == DigitPrefix(b)
        c == LStripWs(Drop(b, d))
        e == IF c # <<>> /\ Head(c) \in Bars THEN Tail(c) ELSE c
    IN d \in 1 .. 4 /\ e = <<>>

is_page_number(line) ==
    \/ Len(line) \in 1 .. 4 /\ \A k \in DOMAIN line : line[k] = Digit
    \/ Len(line) \in 1 .. 6 /\ \A k \in DOMAIN line : line[k] \in RomanLetters
    \/ MatchesFramedNumber(line)

\* The test of lines 101-117 on one line: is it appended, and as what
KeepsLine(line) ==
    LET stripped == StripWs(line) IN
    \/ stripped = <<>>
    \/ /\ ~is_page_number(stripped)
       /\ ~(Len(stripped) <= 2 /\ ~IsAlpha(stripped[Len(stripped)]))
       /\ ~(/\ Len(stripped) >= 3
            /\ \A k \in DOMAIN stripped :
                stripped[k] \in Decorative \/ IsSpace(stripped[k]))

Kept(line) == IF StripWs(line) = <<>> THEN <<>> ELSE line

RECURSIVE CleanedLines(_)
CleanedLines(lines) ==
    IF lines = <<>> THEN <<>>
    ELSE (IF KeepsLine(Head(lines)) THEN <<Kept(Head(lines))>> ELSE <<>>)
            \o CleanedLines(Tail(lines))

\* re.sub(r'-\n', '', text)
RECURSIVE RemoveHyphenBreaks(_)
RemoveHyphenBreaks(t) ==
    IF t = <<>> THEN <<>>
    ELSE IF Len(t) >= 2 /\ t[1] = Hyphen /\ t[2] = Newline
         THEN RemoveHyphenBreaks(Drop(t, 2))
         ELSE <<Head(t)>> \o RemoveHyphenBreaks(Tail(t))

\* re.sub(r'(?<!\n)\n(?!\n)', ' ', text)
JoinSingleNewlines(t) ==
    [i \in 1 .. Len(t) |->
        IF /\ t[i] = Newline
           /\ (i = 1 \/ t[i - 1] # Newline)
           /\ (i = Len(t) \/ t[i + 1] # Newline)
        THEN Space
        ELSE t[i]]

\* Number of leading characters of s equal to c
RECURSIVE RunLength(_, _)
RunLength(s, c) ==
    IF s # <<>> /\ Head(s) = c THEN 1 + RunLength(Tail(s), c) ELSE 0

\* re.sub of a run of at least min characters c by the text by
RECURSIVE CollapseRuns(_, _, _, _)
CollapseRuns(t, c, min, by) ==
    IF t = <<>> THEN <<>>
    ELSE LET n == RunLength(t, c) IN
         IF n >= min
         THEN by \o CollapseRuns(Drop(t, n), c, min, by)
         ELSE IF n > 0
              THEN SubSeq(t, 1, n) \o CollapseRuns(Drop(t, n), c, min, by)
              ELSE <<Head(t)>> \o CollapseRuns(Tail(t), c, min, by)

\* The replacements of lines 131-135 on one character: smart quotes become
\* plain quotes, then everything outside [\x20-\x7E\n] becomes a space.
Printable(c) ==
    LET plain == IF c \in {8220, 8221} THEN 34
                 ELSE IF c \in {8216, 8217} THEN 39
                 ELSE c
    IN IF plain = Space \/ plain = Newline \/ plain \in 33 .. 126
       THEN plain
       ELSE Space

clean_text(t) ==
    LET joined == JoinLines(CleanedLines(splitlines(t)))
        unbroken == RemoveHyphenBreaks(joined)
        flowed == JoinSingleNewlines(unbroken)
        paragraphs == CollapseRuns(flowed, Newline, 3, <<Newline, Newline>>)
        ascii == [i \in 1 .. Len(paragraphs) |-> Printable(paragraphs[i])]
        spaced == CollapseRuns(ascii, Space, 2, <<Space>>)
    IN StripWs(spaced)

\* --------------------------------------------------- remove_repeated_lines
\* What one page adds to line_counts[line]: 1 if the line is on the page
\* (seen_on_page), however often.
OccurrencesEvery(page, line) ==
    LET lines == splitlines(page)
    IN Cardinality({k \in DOMAIN lines : StripWs(lines[k]) = line})

Occurrences(page, line) ==
    LET lines == splitlines(page)
    IN IF \E k \in DOMAIN lines : StripWs(lines[k]) = line THEN 1 ELSE 0

RECURSIVE LineCount(_, _)
LineCount(pages, line) ==
    IF pages = <<>> THEN 0
    ELSE Occurrences(Head(pages), line) + LineCount(Tail(pages), line)

\* count >= max(3, len(pages) * 0.20); the product is exact in floating
\* point for every length the model reaches
AtThreshold(count, n) == count >= 3 /\ 5 * count >= n

\* The keys of line_counts: the stripped non-empty lines of the pages
CountedLines(pages) ==
    UNION {{StripWs(splitlines(pages[p])[k]) : k \in DOMAIN splitlines(pages[p])} :
            p \in DOMAIN pages} \ {<<>>}

remove_repeated_lines(pages) ==
    IF Len(pages) < 5
    THEN pages
    ELSE LET repeated == {line \in CountedLines(pages) :
                            AtThreshold(LineCount(pages, line), Len(pages))}
         IN [p \in DOMAIN pages |->
                JoinLines(SelectSeq(splitlines(pages[p]),
                                    LAMBDA l : StripWs(l) \notin repeated))]

\* --------------------------------------------------------------- messages
NoTextMessage == "No readable text found in the document."
ExtractFailed == "extract_text failed"
SynthesisFailed == "edge_tts failed"
FfmpegNotFound == "ffmpeg not found"
FfmpegExitStatus == "ffmpeg returned non-zero exit status"
KeyErrorMessage == "KeyError: job_id"

\* ------------------------------------------------------------------ state
VARIABLES
    jobs,            \* main.jobs: job id -> record
    uploads,         \* job ids whose source document is in UPLOADS_DIR
    outputs,         \* job ids whose <job_id>.mp3 is in OUTPUTS_DIR
    chunkFiles,      \* <<job id, i>>: <job_id>_chunk_<i>.mp3 is in UPLOADS_DIR
    listFiles,       \* job ids whose <job_id>.mp3.txt concat list exists
    apiKey,          \* GROQ_API_KEY is set
    now,             \* time.time()
    reaperWakeAt,    \* when the reaper's asyncio.sleep ends
    pc,              \* position of _run_conversion
    job_id,          \* its job_id argument
    text,            \* its local text
    chunks,          \* its local chunks
    audio_files,     \* convert_chunks_to_audio's audio_files (chunk indices)
    exc,             \* the exception being handled by line 159
    results,         \* clean_chunks_with_llm's results
    task,            \* state of each process(i) task
    sem,             \* the semaphore's value
    waiters,         \* the semaphore's FIFO of blocked tasks
    llm,             \* outcome of the LLM call of each chunk (history)
    input,           \* the chunks clean_chunks_with_llm was called with (history)
    sink,            \* calls of the cleaning progress sink: count and last value
    failure,         \* the exception raised in the job, if any (history)
    ffmpeg,          \* how the ffmpeg step of the merge ended (history)
    unlinks,         \* number of pdf_path.unlink() calls (history)
    unlinkFailed,    \* that call raised OSError (history)
    escaped,         \* an exception left _run_conversion uncaught (history)
    unlinkErrors,    \* job ids whose output.unlink() raised in the reaper (history)
    response,        \* the last response of GET /api/download/{job_id}
    voices_cache,    \* main._voices_cache
    listing,         \* position of each GET /api/voices request
    enumerations,    \* number of edge_tts.list_voices() calls (history)
    called,          \* the text function that was called, if any
    arg,             \* its argument
    max_chars,       \* chunk_text's max_chars
    ret              \* its return value

vars == <<jobs, uploads, outputs, chunkFiles, listFiles, apiKey, now,
          reaperWakeAt, pc, job_id, text, chunks, audio_files, exc, results,
          task, sem, waiters, llm, input, sink, failure, ffmpeg, unlinks,
          unlinkFailed, escaped, unlinkErrors, response, voices_cache,
          listing, enumerations, called, arg, max_chars, ret>>

files == <<uploads, outputs, chunkFiles, listFiles>>
clock == <<now, reaperWakeAt>>
locals == <<job_id, text, chunks, audio_files, exc>>
cleaning == <<results, task, sem, waiters, llm, input, sink>>
history == <<failure, ffmpeg, unlinks, unlinkFailed, escaped>>
requests == <<response, voices_cache, listing, enumerations>>
pure == <<called, arg, max_chars, ret>>
other == <<unlinkErrors, requests, pure>>
service == <<jobs, files, apiKey, clock, pc, locals, cleaning, history,
             unlinkErrors>>

\* The controller is at an await that suspends it (or has not started, or
\* has ended): the event loop can run another task.
PreemptedAnywhere == TRUE

ControllerSuspended == pc \in {"idle", "ready", "gather", "synth", "finished"}

Present == job_id \in DOMAIN jobs

\* _voices_cache = None
NoCache == <<-1>>

\* No response sent yet
NoResponse ==
    [job |-> 0, at |-> "none", code |-> 0, detail |-> None,
     known |-> FALSE, done |-> FALSE, exists |-> FALSE]
Job == jobs[job_id]

\* The process after start-up: no job, no file, the reaper asleep.
Idle ==
    /\ jobs = <<>>
    /\ uploads = {}
    /\ outputs = {}
    /\ chunkFiles = {}
    /\ listFiles = {}
    /\ apiKey \in BOOLEAN
    /\ now = 0
    /\ reaperWakeAt = SweepIntervalSeconds
    /\ pc = "idle"
    /\ job_id = 0
    /\ text = <<>>
    /\ chunks = <<>>
    /\ audio_files = <<>>
    /\ exc = None
    /\ results = <<>>
    /\ task = <<>>
    /\ sem = 0
    /\ waiters = <<>>
    /\ llm = <<>>
    /\ input = <<>>
    /\ sink = [count |-> 0, last |-> 0]
    /\ failure = None
    /\ ffmpeg = None
    /\ unlinks = 0
    /\ unlinkFailed = FALSE
    /\ escaped = FALSE
    /\ unlinkErrors = {}

\* No GET /api/download and no GET /api/voices request has been made.
NoRequests ==
    /\ response = NoResponse
    /\ voices_cache = NoCache
    /\ listing = <<>>
    /\ enumerations = 0

\* None of the text functions is being followed.
NoCall ==
    /\ called = None
    /\ arg = <<>>
    /\ max_chars = 0
    /\ ret = <<>>

Init == Idle /\ NoRequests /\ NoCall

\* ---------------------------------------------------------------- convert
\* POST /api/convert: the upload is checked, stored, the job record created
\* and the background task scheduled.
Uploads == {[stem |-> "book", ext |-> e] : e \in {".pdf", ".txt"}}
UploadSizes == {0, MAX_UPLOAD_BYTES, MAX_UPLOAD_BYTES + 1}

NewJobEmptyError(file, t) ==
    [status |-> "processing", phase |-> "extracting", progress |-> 0,
     total |-> 0, filename |-> file, created_at |-> t, error |-> ""]

NewJob(file, t) ==
    [status |-> "processing", phase |-> "extracting", progress |-> 0,
     total |-> 0, filename |-> file, created_at |-> t, error |-> None]

convert ==
    /\ pc = "idle"
    /\ \E file \in Uploads, size \in UploadSizes, id \in JobIds :
        /\ file.ext \in SUPPORTED_EXTENSIONS
        /\ size <= MAX_UPLOAD_BYTES
        /\ id \notin DOMAIN jobs
        /\ uploads' = uploads \cup {id}
        /\ jobs' = (id :> NewJob(file, now)) @@ jobs
        /\ job_id' = id
    /\ pc' = "ready"
    /\ UNCHANGED <<outputs, chunkFiles, listFiles, apiKey, other, clock, text, chunks,
                   audio_files, exc, cleaning, history>>

\* ------------------------------------------------------------------ clock
\* Time passes.  Only convert and the reaper read the clock, and both run
\* while the controller is suspended, so time that passes during the
\* controller's synchronous statements is seen at its next suspension.
Tick ==
    /\ ControllerSuspended
    /\ now < MaxTicks * TickSeconds
    /\ now' = now + TickSeconds
    /\ UNCHANGED <<jobs, files, apiKey, other, reaperWakeAt, pc, locals, cleaning, history>>

\* ------------------------------------------------------ _periodic_cleanup
\* One pass of the loop body after the sleep has ended.  output.unlink may
\* raise OSError for any of the files; the record is popped regardless.
ExpiredAtCutoff(cutoff) == {jid \in DOMAIN jobs : jobs[jid].created_at <= cutoff}

Expired(cutoff) == {jid \in DOMAIN jobs : jobs[jid].created_at < cutoff}

Restrict(f, S) == [x \in S |-> f[x]]

periodic_cleanup ==
    /\ ControllerSuspended
    /\ now >= reaperWakeAt
    /\ LET expired == Expired(now - JOB_TTL_SECONDS) IN
        /\ \E stuck \in SUBSET (expired \cap outputs) :
            /\ outputs' = outputs \ (expired \ stuck)
            /\ unlinkErrors' = unlinkErrors \cup stuck
        /\ jobs' = Restrict(jobs, DOMAIN jobs \ expired)
    /\ reaperWakeAt' = now + SweepIntervalSeconds
    /\ UNCHANGED <<uploads, chunkFiles, listFiles, apiKey, requests, pure, now, pc, locals,
                   cleaning, history>>

\* -------------------------------------------------------- _run_conversion
\* raise inside the try block of _run_conversion
Raise(message) ==
    /\ pc' = "except"
    /\ exc' = message
    /\ failure' = message

\* line 123: the task's first statement
run_start ==
    /\ pc = "ready"
    /\ IF Present
       THEN /\ jobs' = [jobs EXCEPT ![job_id].phase = "extracting"]
            /\ pc' = "extract"
            /\ UNCHANGED <<exc, failure>>
       ELSE /\ Raise(KeyErrorMessage)
            /\ UNCHANGED jobs
    /\ UNCHANGED <<files, apiKey, other, clock, job_id, text, chunks, audio_files,
                   cleaning, ffmpeg, unlinks, unlinkFailed, escaped>>

\* "not text.strip()" of line 125
NeverBlank(t) == FALSE

IsBlank(t) == Strip(t) = <<>>

\* where control goes from a return or from the end of the try block or of
\* the handler: into the finally clause
SkipFinally == "finished"

AfterReturn == "finally"

\* lines 124-127: extract_text raises, or returns a text; a text that is
\* empty after strip() ends the job
extract(maxn) ==
    /\ pc = "extract"
    /\ \E outcome \in {ExtractRaises} \cup Documents(maxn) :
        IF outcome = ExtractRaises
        THEN /\ Raise(ExtractFailed)
             /\ UNCHANGED <<jobs, text>>
        ELSE /\ text' = outcome
             /\ IF IsBlank(outcome)
                THEN IF Present
                     THEN /\ jobs' = [jobs EXCEPT ![job_id].status = "error",
                                                  ![job_id].error = NoTextMessage]
                          /\ pc' = AfterReturn
                          /\ UNCHANGED <<exc, failure>>
                     ELSE /\ Raise(KeyErrorMessage)
                          /\ UNCHANGED jobs
                ELSE /\ pc' = "chunk"
                     /\ UNCHANGED <<jobs, exc, failure>>
    /\ UNCHANGED <<files, apiKey, other, clock, job_id, chunks, audio_files, cleaning,
                   ffmpeg, unlinks, unlinkFailed, escaped>>

\* lines 129-130
chunk ==
    /\ pc = "chunk"
    /\ chunks' = ChunksOf(text)
    /\ IF Present
       THEN /\ jobs' = [jobs EXCEPT ![job_id].total = Len(chunks')]
            /\ pc' = "enter_cleaning"
            /\ UNCHANGED <<exc, failure>>
       ELSE /\ Raise(KeyErrorMessage)
            /\ UNCHANGED jobs
    /\ UNCHANGED <<files, apiKey, other, clock, job_id, text, audio_files, cleaning,
                   ffmpeg, unlinks, unlinkFailed, escaped>>

\* jobs[job_id].update({"phase": ..., "progress": 0}) of lines 133 and 141
EnterPhaseKeepProgress(record, phase) == [record EXCEPT !.phase = phase]

EnterPhase(record, phase) == [record EXCEPT !.phase = phase, !.progress = 0]

\* line 133
enter_cleaning ==
    /\ pc = "enter_cleaning"
    /\ IF Present
       THEN /\ jobs' = [jobs EXCEPT ![job_id] = EnterPhase(@, "cleaning")]
            /\ pc' = "call_clean"
            /\ UNCHANGED <<exc, failure>>
       ELSE /\ Raise(KeyErrorMessage)
            /\ UNCHANGED jobs
    /\ UNCHANGED <<files, apiKey, other, clock, job_id, text, chunks, audio_files,
                   cleaning, ffmpeg, unlinks, unlinkFailed, escaped>>

\* line 138 into clean_chunks_with_llm, lines 60-73: without a key the chunks
\* come back at once; with one the semaphore, the results list and one
\* process task per chunk are created and the controller waits in gather
clean_chunks_with_llm ==
    /\ pc = "call_clean"
    /\ input' = chunks
    /\ IF ~apiKey
       THEN /\ pc' = "enter_converting"
            /\ UNCHANGED <<results, task, sem, waiters, llm>>
       ELSE /\ sem' = SemaphoreSlots
            /\ waiters' = <<>>
            /\ results' = [i \in 1 .. Len(chunks) |-> <<>>]
            /\ task' = [i \in 1 .. Len(chunks) |-> "new"]
            /\ llm' = [i \in 1 .. Len(chunks) |-> LLMPending]
            /\ pc' = "gather"
    /\ UNCHANGED <<jobs, files, apiKey, other, clock, job_id, text, chunks, audio_files,
                   exc, sink, history>>

\* ------------------------------------------------- process(i), _clean_chunk
\* "async with semaphore" (line 34) when the task first runs.  The tasks
\* gather created start in the order of their creation.
Acquirable(value, queue) == value > 0 /\ queue = <<>>

process_start(i) ==
    /\ ControllerSuspended
    /\ i \in DOMAIN task
    /\ task[i] = "new"
    /\ \A k \in 1 .. i - 1 : task[k] # "new"
    /\ IF Acquirable(sem, waiters)
       THEN /\ sem' = sem - 1
            /\ task' = [task EXCEPT ![i] = "inflight"]
            /\ UNCHANGED waiters
       ELSE /\ waiters' = Append(waiters, i)
            /\ task' = [task EXCEPT ![i] = "waiting"]
            /\ UNCHANGED sem
    /\ UNCHANGED <<jobs, files, apiKey, other, clock, pc, locals, results, llm, input,
                   sink, history>>

\* The LLM call of chunk i ends (lines 36-48), the slot is released, the
\* result stored (line 69) and the progress sink called (lines 70-71, 135-136).
\* The sink raises KeyError when the job record is gone.  The release hands
\* the slot to the first blocked task, which then sends its request.  A call
\* ends only after every task has started: the event loop runs the tasks
\* that are ready before it polls the network.
process_complete(i) ==
    /\ ControllerSuspended
    /\ i \in DOMAIN task
    /\ task[i] = "inflight"
    /\ \A k \in DOMAIN task : task[k] # "new"
    /\ \E outcome \in LLMOutcomes(input[i]) :
        LET released == Release(sem, outcome)
            wake == waiters # <<>> /\ released > 0
            done == SinkArgument(i, sink.count + 1)
            ended == IF Present THEN "done" ELSE "raised"
        IN  /\ llm' = [llm EXCEPT ![i] = outcome]
            /\ results' = StoreResult(results, i, clean_chunk(input[i], outcome))
            /\ sem' = IF wake THEN released - 1 ELSE released
            /\ waiters' = IF wake THEN Tail(waiters) ELSE waiters
            /\ task' = IF wake
                       THEN [task EXCEPT ![i] = ended, ![Head(waiters)] = "inflight"]
                       ELSE [task EXCEPT ![i] = ended]
            /\ sink' = [count |-> sink.count + 1, last |-> done]
            /\ jobs' = IF Present THEN [jobs EXCEPT ![job_id].progress = done]
                       ELSE jobs
    /\ UNCHANGED <<files, apiKey, other, clock, pc, locals, input, history>>

\* asyncio.gather (line 73) returns once every task has returned ...
GatherReturnsRewrittenOnly ==
    /\ pc = "gather"
    /\ \A i \in DOMAIN task : task[i] = "done"
    /\ chunks' = SelectSeq(results, LAMBDA r : \A i \in DOMAIN input : r # input[i])
    /\ pc' = "enter_converting"
    /\ UNCHANGED <<jobs, files, apiKey, other, clock, job_id, text, audio_files, exc,
                   cleaning, history>>

gather_return ==
    /\ pc = "gather"
    /\ \A i \in DOMAIN task : task[i] = "done"
    /\ chunks' = results
    /\ pc' = "enter_converting"
    /\ UNCHANGED <<jobs, files, apiKey, other, clock, job_id, text, audio_files, exc,
                   cleaning, history>>

\* ... and raises in the controller as soon as one task has raised; the
\* other tasks are not cancelled
gather_raise ==
    /\ pc = "gather"
    /\ \E i \in DOMAIN task : task[i] = "raised"
    /\ Raise(KeyErrorMessage)
    /\ UNCHANGED <<jobs, files, apiKey, other, clock, job_id, text, chunks, audio_files,
                   cleaning, ffmpeg, unlinks, unlinkFailed, escaped>>

\* line 141.  The frame of the clean_chunks_with_llm call (its semaphore,
\* tasks and results) is no longer referenced and is dropped here, with what
\* was recorded about the call.
enter_converting ==
    /\ pc = "enter_converting"
    /\ IF Present
       THEN /\ jobs' = [jobs EXCEPT ![job_id] = EnterPhase(@, "converting")]
            /\ pc' = "convert"
            /\ UNCHANGED <<exc, failure>>
       ELSE /\ Raise(KeyErrorMessage)
            /\ UNCHANGED jobs
    /\ results' = <<>>
    /\ task' = <<>>
    /\ sem' = 0
    /\ waiters' = <<>>
    /\ llm' = <<>>
    /\ input' = <<>>
    /\ UNCHANGED <<files, apiKey, other, clock, job_id, text, chunks, audio_files,
                   sink, ffmpeg, unlinks, unlinkFailed, escaped>>

\* ------------------------------------------------ convert_chunks_to_audio
\* lines 146, 91-96: up to the first await of text_chunk_to_audio
convert_chunks_to_audio ==
    /\ pc = "convert"
    /\ audio_files' = <<>>
    /\ pc' = IF Len(chunks) = 0 THEN "enter_merging" ELSE "synth"
    /\ UNCHANGED <<jobs, files, apiKey, other, clock, job_id, text, chunks, exc,
                   cleaning, history>>

\* text_chunk_to_audio of the next chunk ends (line 96).  On success the file
\* is there, its path appended (line 97) and the sink called (lines 99-100,
\* 143-144); the loop goes on to the next await or returns.  On failure the
\* exception leaves the stage.  Only the files of chunks whose synthesis
\* succeeded are followed.
synth_done ==
    /\ pc = "synth"
    /\ LET i == Len(audio_files) + 1 IN
       \E ok \in BOOLEAN :
        IF ok
        THEN /\ chunkFiles' = chunkFiles \cup {<<job_id, i>>}
             /\ audio_files' = Append(audio_files, i)
             /\ IF Present
                THEN /\ jobs' = [jobs EXCEPT ![job_id].progress = i]
                     /\ pc' = IF i < Len(chunks) THEN "synth" ELSE "enter_merging"
                     /\ UNCHANGED <<exc, failure>>
                ELSE /\ Raise(KeyErrorMessage)
                     /\ UNCHANGED jobs
        ELSE /\ Raise(SynthesisFailed)
             /\ UNCHANGED <<jobs, chunkFiles, audio_files>>
    /\ UNCHANGED <<uploads, outputs, listFiles, apiKey, other, clock, job_id, text,
                   chunks, cleaning, ffmpeg, unlinks, unlinkFailed, escaped>>

\* line 152
enter_merging ==
    /\ pc = "enter_merging"
    /\ IF Present
       THEN /\ jobs' = [jobs EXCEPT ![job_id].phase = "merging"]
            /\ pc' = "merge_list"
            /\ UNCHANGED <<exc, failure>>
       ELSE /\ Raise(KeyErrorMessage)
            /\ UNCHANGED jobs
    /\ UNCHANGED <<files, apiKey, other, clock, job_id, text, chunks, audio_files,
                   cleaning, ffmpeg, unlinks, unlinkFailed, escaped>>

\* ------------------------------------------------------ merge_audio_files
\* lines 107-111: the concat list is written
merge_write_list ==
    /\ pc = "merge_list"
    /\ listFiles' = listFiles \cup {job_id}
    /\ pc' = "merge_run"
    /\ UNCHANGED <<jobs, uploads, outputs, chunkFiles, apiKey, other, clock, locals,
                   cleaning, history>>

\* How the ffmpeg step can end: it ran and exited 0, _find_ffmpeg found no
\* binary (RuntimeError), or ffmpeg exited non-zero (check=True raises
\* CalledProcessError).
FfmpegOutcomes == {"ok", "missing", "exit"}

FfmpegRaisesUnchecked(outcome) == outcome = "missing"

FfmpegRaises(outcome) == outcome # "ok"

\* lines 113-132: ffmpeg runs; the list file is removed in the finally.  An
\* ffmpeg that exits non-zero may leave an output file behind.
merge_run ==
    /\ pc = "merge_run"
    /\ \E outcome \in FfmpegOutcomes, partial \in BOOLEAN :
        /\ outputs' = IF outcome = "ok" \/ (outcome = "exit" /\ partial)
                      THEN outputs \cup {job_id}
                      ELSE outputs
        /\ ffmpeg' = outcome
        /\ IF FfmpegRaises(outcome)
           THEN Raise(IF outcome = "missing" THEN FfmpegNotFound
                      ELSE FfmpegExitStatus)
           ELSE /\ pc' = "cleanup"
                /\ UNCHANGED <<exc, failure>>
    /\ listFiles' = listFiles \ {job_id}
    /\ UNCHANGED <<jobs, uploads, chunkFiles, apiKey, other, clock, job_id, text,
                   chunks, audio_files, cleaning, unlinks, unlinkFailed, escaped>>

\* line 155, cleanup_chunks: every path of chunk_files is removed
cleanup_chunks ==
    /\ pc = "cleanup"
    /\ chunkFiles' = chunkFiles \
                       {<<job_id, audio_files[k]>> : k \in DOMAIN audio_files}
    /\ pc' = "set_done"
    /\ UNCHANGED <<jobs, uploads, outputs, listFiles, apiKey, other, clock, locals,
                   cleaning, history>>

\* line 157
set_done ==
    /\ pc = "set_done"
    /\ IF Present
       THEN /\ jobs' = [jobs EXCEPT ![job_id].status = "done"]
            /\ pc' = AfterReturn
            /\ UNCHANGED <<exc, failure>>
       ELSE /\ Raise(KeyErrorMessage)
            /\ UNCHANGED jobs
    /\ UNCHANGED <<files, apiKey, other, clock, job_id, text, chunks, audio_files,
                   cleaning, ffmpeg, unlinks, unlinkFailed, escaped>>

\* lines 159-160: the handler; its own KeyError, when the record is gone,
\* leaves the task after the finally clause has run
handle_exception ==
    /\ pc = "except"
    /\ IF Present
       THEN /\ jobs' = [jobs EXCEPT ![job_id].status = "error",
                                    ![job_id].error = exc]
            /\ UNCHANGED escaped
       ELSE /\ escaped' = TRUE
            /\ UNCHANGED jobs
    /\ pc' = AfterReturn
    /\ UNCHANGED <<files, apiKey, other, clock, job_id, text, chunks, audio_files, exc,
                   cleaning, failure, ffmpeg, unlinks, unlinkFailed>>

\* lines 161-165: pdf_path.unlink(), whose OSError is swallowed

finally_unlink ==
    /\ pc = "finally"
    /\ \E ok \in BOOLEAN :
        /\ uploads' = IF ok THEN uploads \ {job_id} ELSE uploads
        /\ unlinkFailed' = ~ok
    /\ unlinks' = unlinks + 1
    /\ pc' = "finished"
    /\ UNCHANGED <<jobs, outputs, chunkFiles, listFiles, apiKey, other, clock, locals,
                   cleaning, failure, ffmpeg, escaped>>

\* ---------------------------------------------------------- specifications
Pipeline ==
    \/ run_start
    \/ chunk
    \/ enter_cleaning
    \/ clean_chunks_with_llm
    \/ \E i \in DOMAIN task : process_start(i)
    \/ \E i \in DOMAIN task : process_complete(i)
    \/ gather_return
    \/ enter_converting
    \/ convert_chunks_to_audio
    \/ synth_done
    \/ enter_merging
    \/ merge_write_list
    \/ merge_run
    \/ cleanup_chunks
    \/ set_done
    \/ handle_exception
    \/ finally_unlink

\* The job life-cycle with the clock and the reaper.
Next ==
    \/ convert
    \/ extract(MaxChunks)
    \/ Pipeline
    \/ gather_raise
    \/ Tick
    \/ periodic_cleanup

Spec == Init /\ [][Next]_vars

\* The pipeline alone, on documents of up to MaxCleanChunks chunks: no time
\* passes, so the reaper never finds an expired job.
CleanNext ==
    \/ convert
    \/ extract(MaxCleanChunks)
    \/ Pipeline

CleanSpec == Init /\ [][CleanNext]_vars

\* chunk_text applied to every text of at most MaxTextLen characters (a
\* letter, a full stop, a space) with every max_chars up to MaxMaxChars.
ChunkInit ==
    /\ Idle
    /\ ~apiKey
    /\ NoRequests
    /\ called = None
    /\ arg \in Texts({Letter, Period, Space}, MaxTextLen)
    /\ max_chars \in 1 .. MaxMaxChars
    /\ ret = <<>>

call_chunk_text ==
    /\ called = None
    /\ called' = "chunk_text"
    /\ ret' = chunk_text(arg, max_chars)
    /\ UNCHANGED <<service, requests, arg, max_chars>>

ChunkSpec == ChunkInit /\ [][call_chunk_text]_vars

\* The reaper alone, on a store of finished jobs of different ages.  A job
\* that is done has its output file; a job that failed in the merge may
\* have one (a partial file).  The clock
\* starts at the time-to-live, so the ages at the first sweep are 0, half
\* the time-to-live and exactly the time-to-live.
FinishedJobs ==
    LET file == [stem |-> "book", ext |-> ".pdf"] IN
    {[NewJob(file, t) EXCEPT !.status = "done", !.phase = "merging",
                             !.progress = 1, !.total = 1] :
        t \in {0, TickSeconds, JOB_TTL_SECONDS}}
    \cup
    {[NewJob(file, t) EXCEPT !.status = "error", !.phase = "merging",
                             !.progress = 1, !.total = 1,
                             !.error = FfmpegExitStatus] :
        t \in {0, TickSeconds, JOB_TTL_SECONDS}}

ReaperInit ==
    /\ \E ids \in SUBSET (1 .. MaxStored) :
        /\ jobs \in [ids -> FinishedJobs]
        /\ outputs \in SUBSET ids
    /\ \A id \in DOMAIN jobs : jobs[id].status = "done" => id \in outputs
    /\ uploads = {}
    /\ chunkFiles = {}
    /\ listFiles = {}
    /\ apiKey = FALSE
    /\ now = JOB_TTL_SECONDS
    /\ reaperWakeAt = JOB_TTL_SECONDS
    /\ pc = "idle"
    /\ job_id = 0
    /\ text = <<>>
    /\ chunks = <<>>
    /\ audio_files = <<>>
    /\ exc = None
    /\ results = <<>>
    /\ task = <<>>
    /\ sem = 0
    /\ waiters = <<>>
    /\ llm = <<>>
    /\ input = <<>>
    /\ sink = [count |-> 0, last |-> 0]
    /\ failure = None
    /\ ffmpeg = None
    /\ unlinks = 0
    /\ unlinkFailed = FALSE
    /\ escaped = FALSE
    /\ unlinkErrors = {}
    /\ NoRequests
    /\ NoCall

ReaperNext ==
    \/ Tick
    \/ periodic_cleanup

ReaperSpec == ReaperInit /\ [][ReaperNext]_vars

\* --------------------------------------------------------------- download
\* GET /api/download/{job_id}.  The handler is a plain function, which the
\* framework runs on a worker thread: the event loop keeps running between
\* its look-up of the record and its test of the output file.  The response
\* records what the two tests found (known, done, exists).
RequestIds == JobIds \cup {2}

HTTPException(id, status_code, detail, found) ==
    [job |-> id, at |-> "sent", code |-> status_code, detail |-> detail,
     known |-> found.known, done |-> found.done, exists |-> found.exists]

download_lookup ==
    /\ response.at # "file_check"
    /\ \E id \in RequestIds :
        LET known == id \in DOMAIN jobs
            done == known /\ jobs[id].status = "done"
            found == [known |-> known, done |-> done, exists |-> FALSE]
        IN response' =
            IF ~known THEN HTTPException(id, 404, "Job not found.", found)
            ELSE IF ~done
                 THEN HTTPException(id, 400, "Audio not ready yet.", found)
                 ELSE [job |-> id, at |-> "file_check", code |-> 0,
                       detail |-> None, known |-> TRUE, done |-> TRUE,
                       exists |-> FALSE]
    /\ UNCHANGED <<service, voices_cache, listing, enumerations, pure>>

download_send ==
    /\ response.at = "file_check"
    /\ response' =
        IF response.job \notin outputs
        THEN HTTPException(response.job, 404, "Output file missing.", response)
        ELSE [response EXCEPT !.at = "sent", !.code = 200,
                              !.detail = "FileResponse", !.exists = TRUE]
    /\ UNCHANGED <<service, voices_cache, listing, enumerations, pure>>

\* The job life-cycle with download requests.
DownloadNext ==
    \/ Next
    \/ download_lookup
    \/ download_send

DownloadSpec == Init /\ [][DownloadNext]_vars

\* ----------------------------------------------------------- /api/voices
\* What edge_tts.list_voices() can return: voices in the backend's order,
\* each written as its rank by (Locale, ShortName).
BackendVoices == {<<1>>, <<2, 1>>}

\* get_voices: the voices sorted by (Locale, ShortName)
get_voices(voices) == SortSeq(voices, LAMBDA a, b : a < b)

VoicesInit ==
    /\ Idle
    /\ response = NoResponse
    /\ voices_cache = NoCache
    /\ listing = [r \in 1 .. MaxRequests |-> [at |-> "none", voices |-> <<>>]]
    /\ enumerations = 0
    /\ NoCall

\* api_get_voices up to its await: the cache is tested, and if it is None
\* get_voices starts and calls the backend; else the cache is returned.
voices_request(r) ==
    /\ listing[r].at = "none"
    /\ IF voices_cache = NoCache
       THEN /\ listing' = [listing EXCEPT ![r].at = "fetching"]
            /\ enumerations' = enumerations + 1
       ELSE /\ listing' = [listing EXCEPT ![r] = [at |-> "served", voices |-> voices_cache]]
            /\ UNCHANGED enumerations
    /\ UNCHANGED <<service, response, voices_cache, pure>>

\* The backend call of request r ends: the list is stored in the cache and
\* returned, or the exception leaves the handler and the cache stays None.
voices_fetched(r) ==
    /\ listing[r].at = "fetching"
    /\ \/ \E voices \in BackendVoices :
            /\ voices_cache' = get_voices(voices)
            /\ listing' = [listing EXCEPT ![r] = [at |-> "served", voices |-> voices_cache']]
       \/ /\ listing' = [listing EXCEPT ![r].at = "failed"]
          /\ UNCHANGED voices_cache
    /\ UNCHANGED <<service, response, enumerations, pure>>

VoicesNext ==
    \/ \E r \in DOMAIN listing : voices_request(r)
    \/ \E r \in DOMAIN listing : voices_fetched(r)

VoicesSpec == VoicesInit /\ [][VoicesNext]_vars

\* clean_text applied twice to every text of at most MaxCleanLen characters
\* over a letter, a digit, a hyphen, a non-ASCII letter, the space and the
\* newline.
CleanAlphabet == {Letter, Digit, Hyphen, NonAscii, Space, Newline}

CleanTextInit ==
    /\ Idle
    /\ ~apiKey
    /\ NoRequests
    /\ called = None
    /\ arg \in Texts(CleanAlphabet, MaxCleanLen)
    /\ max_chars = 0
    /\ ret = <<>>

call_clean_text ==
    /\ called = None
    /\ called' = "clean_text"
    /\ ret' = clean_text(arg)
    /\ UNCHANGED <<service, requests, arg, max_chars>>

\* The result is cleaned again.
call_clean_text_again ==
    /\ called = "clean_text"
    /\ called' = "clean_text_again"
    /\ arg' = ret
    /\ ret' = clean_text(ret)
    /\ UNCHANGED <<service, requests, max_chars>>

CleanTextNext ==
    \/ call_clean_text
    \/ call_clean_text_again

CleanTextSpec == CleanTextInit /\ [][CleanTextNext]_vars

\* remove_repeated_lines applied to every document of at most MaxPages
\* pages, each page one of four (a header line "a" and a body line "4", in
\* different arrangements), and to documents of 10 and 16 pages whose first
\* pages carry the header.
PageKinds ==
    {<<Letter, Newline, Digit>>,
     <<Space, Letter, Space>>,
     <<Digit, Newline, Newline, Letter, Newline, Letter>>,
     <<Digit>>}

LongDocuments ==
    {[p \in 1 .. n |-> IF p <= k THEN <<Letter, Newline, Digit>> ELSE <<Digit>>] :
        n \in {10, 16}, k \in 2 .. 4}

RepeatedLinesInit ==
    /\ Idle
    /\ ~apiKey
    /\ NoRequests
    /\ called = None
    /\ arg \in UNION {[1 .. n -> PageKinds] : n \in 0 .. MaxPages} \cup LongDocuments
    /\ max_chars = 0
    /\ ret = <<>>

call_remove_repeated_lines ==
    /\ called = None
    /\ called' = "remove_repeated_lines"
    /\ ret' = remove_repeated_lines(arg)
    /\ UNCHANGED <<service, requests, arg, max_chars>>

RepeatedLinesSpec == RepeatedLinesInit /\ [][call_remove_repeated_lines]_vars

\* ------------------------------------------------------------- properties
\* A job's status is read from its record, while the record is in the store.
StatusIs(v) == Present /\ Job.status = v

MyChunkFiles == {f \in chunkFiles : f[1] = job_id}

\* C1: the status is 'done' only when every chunk was synthesized and ffmpeg
\* ran and exited 0; once the synthesis of a chunk or the merge (ffmpeg
\* missing or non-zero exit) has failed, the status is never 'done', and it
\* is 'error' when the controller has handled the failure.
C1_DoneOnlyAfterMerge ==
    /\ StatusIs("done") =>
        /\ ffmpeg = "ok"
        /\ Len(chunks) >= 1
        /\ audio_files = [i \in 1 .. Len(chunks) |-> i]
        /\ failure = None
    /\ (Present /\ (failure = SynthesisFailed \/ ffmpeg \in {"missing", "exit"})) =>
        /\ Job.status # "done"
        /\ pc \in {"finally", "finished"} => Job.status = "error"

\* The merge failed with ffmpeg leaving an output file behind, the controller
\* has ended and the job is reported as failed.
C1_Witness ==
    /\ pc = "finished"
    /\ ffmpeg = "exit"
    /\ job_id \in outputs
    /\ StatusIs("error")

\* C2: within one phase the progress field of a job never decreases.
C2_ProgressMonotone ==
    [][(Present /\ Present' /\ Job'.phase = Job.phase)
         => Job'.progress >= Job.progress]_vars

\* C3: the cleaning progress sink is called once per chunk that has ended,
\* and its k-th call is given k.
C3_SinkGetsCount ==
    /\ task # <<>> =>
        sink.count = Cardinality({i \in DOMAIN task : task[i] \in {"done", "raised"}})
    /\ sink.count > 0 => sink.last = sink.count

\* The cleaning stage with the fairness asyncio gives it: a task that is
\* ready runs, and a request that was sent ends (with a completion, an error
\* or the client's timeout).
FairCleanSpec == CleanSpec /\ WF_vars(Pipeline)

InFlight == {i \in DOMAIN task : task[i] = "inflight"}

\* C4: never more than 5 LLM requests are in flight, every slot is either
\* free or held by a request in flight (a request that failed has given its
\* slot back), and a stage that has started ends with every chunk's task
\* having run to its end.
C4_BoundedAndLive ==
    /\ [](Cardinality(InFlight) <= SemaphoreSlots)
    /\ [](task # <<>> => sem + Cardinality(InFlight) = SemaphoreSlots)
    /\ (pc = "gather") ~>
         (pc = "enter_converting" /\ \A i \in DOMAIN task : task[i] = "done")

\* More chunks than slots, the first five requests all failed, and the stage
\* has ended.
C4_Witness ==
    /\ pc = "enter_converting"
    /\ Len(task) > SemaphoreSlots
    /\ \A i \in 1 .. SemaphoreSlots : llm[i] = LLMError

\* What the stage owes for a chunk, given how its LLM call ended.
Fallback(outcome) == outcome = LLMError \/ Strip(outcome) = <<>>
Owed(t, outcome) == IF Fallback(outcome) THEN t ELSE Strip(outcome)

\* C5: the list clean_chunks_with_llm returns is as long as its input and
\* holds at index i the result of the call made for input chunk i.
C5_OrderPreserved ==
    pc = "enter_converting" =>
        /\ Len(chunks) = Len(input)
        /\ \A i \in DOMAIN input :
            chunks[i] = IF apiKey THEN Owed(input[i], llm[i]) ELSE input[i]

\* Three chunks or more, the call of chunk 1 ended last, after the call of
\* chunk 2, and their results differ in kind.
C5_Witness ==
    /\ pc = "enter_converting"
    /\ Len(input) >= 3
    /\ sink.last = 1
    /\ llm[1] = Rewritten(input[1])
    /\ llm[2] = LLMError

\* C6: a chunk whose call raised or returned only whitespace is passed on
\* unchanged, every other chunk is replaced by its own trimmed completion,
\* and when every call failed the returned list is the input list.
C6_FallbackPerChunk ==
    /\ \A i \in DOMAIN llm :
        llm[i] # LLMPending =>
            /\ Fallback(llm[i]) => results[i] = input[i]
            /\ ~Fallback(llm[i]) => results[i] = Strip(Rewritten(input[i]))
    /\ (pc = "enter_converting" /\ apiKey) =>
        /\ \A i \in DOMAIN llm : Fallback(llm[i]) => chunks[i] = input[i]
        /\ (\A i \in DOMAIN llm : llm[i] = LLMError) => chunks = input

\* One call raised, one returned only whitespace, one returned a rewriting.
C6_Witness ==
    /\ pc = "enter_converting"
    /\ \E i, j, k \in DOMAIN llm :
        /\ llm[i] = LLMError /\ chunks[i] = input[i]
        /\ llm[j] = <<Space>> /\ chunks[j] = input[j]
        /\ llm[k] = Rewritten(input[k]) /\ chunks[k] # input[k]

\* C7: pdf_path.unlink() is called exactly once in the life of the
\* controller, as its last step, on every way out (done, no readable text, an
\* exception, the record evicted); the file is gone unless the call raised,
\* and the step leaves the job store as it was.
C7_SourceDeletedOnce ==
    [][/\ unlinks' # unlinks => (unlinks = 0 /\ unlinks' = 1 /\ jobs' = jobs)
       /\ unlinks' # unlinks => (~unlinkFailed' => job_id \notin uploads')
       /\ (pc' = "finished" /\ pc # "finished") <=> unlinks' # unlinks
       /\ pc' = "finished" => unlinks' = 1]_vars

\* The reaper evicted the record while the job ran, the handler's own
\* KeyError left the task, and the source file was still removed.
C7_Witness ==
    /\ pc = "finished"
    /\ ~Present
    /\ escaped
    /\ unlinks = 1
    /\ job_id \notin uploads

\* C8: once the status is 'done' or 'error', no chunk audio file and no
\* concat list of the job is on disk.
C8_NoTemporaryFilesLeft ==
    (StatusIs("done") \/ StatusIs("error")) =>
        /\ MyChunkFiles = {}
        /\ job_id \notin listFiles

\* The controller has returned at line 127: extract_text gave a text that is
\* empty after trimming.
EmptyTextCase == pc \in {"finally", "finished"} /\ text = <<>> /\ failure = None

\* C9: a job whose extracted text is empty ends with status 'error' and the
\* no-readable-text message straight from the extracting phase, with total
\* and progress still 0, and none of its chunk files, concat list or output
\* file was ever written.
C9_EmptyTextEndsInError ==
    EmptyTextCase =>
        /\ Present =>
            /\ Job.status = "error"
            /\ Job.error = NoTextMessage
            /\ Job.phase = "extracting"
            /\ Job.total = 0
            /\ Job.progress = 0
        /\ chunks = <<>>
        /\ audio_files = <<>>
        /\ sink.count = 0
        /\ ffmpeg = None
        /\ MyChunkFiles = {}
        /\ job_id \notin listFiles
        /\ job_id \notin outputs

C9_Witness ==
    /\ EmptyTextCase
    /\ pc = "finished"
    /\ StatusIs("error")
    /\ Job.error = NoTextMessage

PhaseRank(phase) ==
    CASE phase = "extracting" -> 1
      [] phase = "cleaning" -> 2
      [] phase = "converting" -> 3
      [] phase = "merging" -> 4

\* C10: a record is created as processing/extracting with progress 0 and
\* total 0; while it stays in the store its phase changes only to the next
\* of extracting, cleaning, converting, merging; progress is 0 on entry to
\* cleaning and to converting; and the status changes only from 'processing'
\* to 'done' or 'error'.
C10_PhaseOrder ==
    [][/\ (~Present /\ Present') =>
            /\ Job'.status = "processing"
            /\ Job'.phase = "extracting"
            /\ Job'.progress = 0
            /\ Job'.total = 0
       /\ (Present /\ Present') =>
            /\ Job'.phase # Job.phase =>
                 PhaseRank(Job'.phase) = PhaseRank(Job.phase) + 1
            /\ (Job'.phase # Job.phase /\ Job'.phase \in {"cleaning", "converting"})
                 => Job'.progress = 0
            /\ Job'.status # Job.status =>
                 (Job.status = "processing" /\ Job'.status \in {"done", "error"})]_vars

\* The job entered converting with its progress back at 0 after the cleaning
\* sink had reported chunks.
C10_Witness ==
    /\ Present
    /\ Job.phase = "converting"
    /\ Job.progress = 0
    /\ sink.count > 0

\* The characters of a text that are not whitespace, in order
NonSpace(t) == SelectSeq(t, LAMBDA c : ~IsSpace(c))

RECURSIVE Concat(_)
Concat(ss) == IF ss = <<>> THEN <<>> ELSE Head(ss) \o Concat(Tail(ss))

\* C11: the chunks chunk_text returns, concatenated in order, reproduce the
\* input up to whitespace: every sentence once, in the original order, also
\* when a sentence longer than max_chars arrives while the buffer is
\* non-empty.
C11_RoundTrip ==
    called = "chunk_text" => NonSpace(Concat(ret)) = NonSpace(arg)

\* The text is one sentence, longer than max_chars: the hard split.
HardSplitOnly == Len(Sentences(arg)) = 1 /\ Len(arg) > max_chars

RECURSIVE SumLen(_)
SumLen(ss) == IF ss = <<>> THEN 0 ELSE Len(Head(ss)) + SumLen(Tail(ss))

Bounded ==
    \A k \in DOMAIN ret : ret[k] # <<>> /\ Len(ret[k]) <= max_chars

\* C12 as stated: every chunk is non-empty and at most max_chars long, and
\* a sentence longer than max_chars comes back as slices whose lengths sum
\* to its length.
C12_SlicesSumToSentence ==
    called = "chunk_text" =>
        /\ Bounded
        /\ HardSplitOnly => SumLen(ret) = Len(arg)

\* C12: every chunk is non-empty and at most max_chars long; a sentence
\* longer than max_chars comes back as its consecutive slices of size
\* max_chars, in order, without the slices that are whitespace only.
C12_ChunksBounded ==
    called = "chunk_text" =>
        /\ Bounded
        /\ \A k \in DOMAIN ret : NotBlank(ret[k])
        /\ HardSplitOnly => ret = SelectSeq(Slices(arg, max_chars), NotBlank)

\* A text of two sentences, the first exactly max_chars long and kept
\* whole, the second longer and cut.
C12_Witness ==
    /\ called = "chunk_text"
    /\ max_chars = 2
    /\ arg = <<Letter, Period, Space, Letter, Letter, Letter>>
    /\ ret[1] = <<Letter, Period>>
    /\ ret[2] = <<Letter, Letter>>
    /\ ret[3] = <<Letter>>

\* The jobs whose creation timestamp is older than the time-to-live
OlderThanTTL == {j \in DOMAIN jobs : now - jobs[j].created_at > JOB_TTL_SECONDS}

\* C13: a sweep of the reaper removes from the store exactly the jobs older
\* than the time-to-live, deletes the output file of each of them (the file
\* stays only if its deletion failed, and the record goes all the same), and
\* leaves the record and the output file of every younger job as they were.
C13_SweepEvictsExpired ==
    [][reaperWakeAt' # reaperWakeAt =>
        /\ DOMAIN jobs' = DOMAIN jobs \ OlderThanTTL
        /\ \A j \in DOMAIN jobs' :
            /\ jobs'[j] = jobs[j]
            /\ j \in outputs' <=> j \in outputs
        /\ \A j \in OlderThanTTL : j \in outputs' => j \in unlinkErrors'
        /\ outputs' \subseteq outputs]_vars

\* After a sweep: an expired job is gone although its output file could not
\* be deleted, another expired job is gone with its file, and a job of
\* exactly the time-to-live is still there with its file.
C13_Witness ==
    /\ reaperWakeAt > now
    /\ 1 \notin DOMAIN jobs
    /\ 1 \in outputs
    /\ 1 \in unlinkErrors
    /\ 2 \in DOMAIN jobs
    /\ 2 \in outputs
    /\ now - jobs[2].created_at = JOB_TTL_SECONDS

\* C14: a download returns the file only if the job is done and its output
\* file exists; an unknown job id gives a not-found error, a job that is not
\* done a client error (4xx), and a job that is done but whose output file
\* is missing a server error (5xx).
C14_DownloadResponses ==
    response.at = "sent" =>
        /\ response.code = 200 <=>
            (response.known /\ response.done /\ response.exists)
        /\ ~response.known => response.code = 404
        /\ (response.known /\ ~response.done) => response.code \in 400 .. 499
        /\ (response.known /\ response.done /\ ~response.exists) =>
            response.code \in 500 .. 599

\* C15: whenever the status of a job is 'done', its phase is 'merging' and
\* its progress equals its total, which is the number of chunks and at least
\* 1, with and without an LLM credential.
C15_DoneIsComplete ==
    StatusIs("done") =>
        /\ Job.phase = "merging"
        /\ Job.progress = Job.total
        /\ Job.total = Len(chunks)
        /\ Job.total >= 1

\* A job of several chunks is done after a cleaning stage that rewrote one
\* chunk and fell back to the original for another.
C15_Witness ==
    /\ StatusIs("done")
    /\ apiKey
    /\ Job.total >= 2
    /\ \E i, k \in DOMAIN chunks :
        chunks[i] = Strip(Rewritten(<<text[i]>>)) /\ chunks[k] = <<text[k]>>

\* C16: the voice list is fetched from the backend at most once in the life
\* of the process, however many listing requests arrive and also when one
\* arrives during the fetch of an earlier one; every request served gets the
\* cached list.
C16_VoicesFetchedOnce ==
    /\ enumerations <= 1
    /\ \A r \in DOMAIN listing :
        listing[r].at = "served" => listing[r].voices = voices_cache

\* C17: clean_text is idempotent: cleaning a cleaned text returns it
\* unchanged.
C17_CleanTextIdempotent ==
    called = "clean_text_again" => ret = arg

\* The pages of the input on which a line occurs (compared stripped)
PagesWith(line) ==
    {p \in DOMAIN arg :
        \E k \in DOMAIN splitlines(arg[p]) :
            StripWs(splitlines(arg[p])[k]) = StripWs(line)}

\* A non-empty line on at least max(3, 0.20 * n) of the n pages
OnManyPages(line) ==
    /\ StripWs(line) # <<>>
    /\ Cardinality(PagesWith(line)) >= 3
    /\ 5 * Cardinality(PagesWith(line)) >= Len(arg)

C19_ProgressWithinTotal ==
    [][Present' =>
        /\ 0 <= Job'.progress
        /\ Job'.progress <= Job'.total
        /\ pc' \in {"ready", "extract", "chunk"} => Job'.total = 0
        /\ Job'.total # 0 => Job'.total = Len(chunks')
        /\ (Present /\ Job.total # 0) => Job'.total = Job.total]_vars

\* The cleaning of a document of several chunks has reported its last
\* chunk: progress has reached total.
C19_Witness ==
    /\ StatusIs("processing")
    /\ Job.phase = "cleaning"
    /\ Job.total >= 2
    /\ Job.progress = Job.total
    /\ Len(chunks) = Job.total

\* C20: with tasks interleaving only at awaits, and as long as no deletion
\* by the reaper has failed, an output file exists only for a job that is in
\* the store; once the reaper has evicted the job of the running controller,
\* the record is never put back, the merge is never run and no output file
\* is created.
C20_NoOutputWithoutRecord ==
    [][/\ unlinkErrors' = {} => outputs' \subseteq DOMAIN jobs'
       /\ (job_id # 0 /\ ~Present) =>
            /\ ~Present'
            /\ ffmpeg' = ffmpeg
            /\ outputs' \subseteq outputs]_vars

\* The job was evicted while its chunks were being synthesized: the
\* controller has ended on the KeyError, no merge was run and there is no
\* output file.
C20_Witness ==
    /\ pc = "finished"
    /\ job_id # 0
    /\ ~Present
    /\ audio_files # <<>>
    /\ failure = KeyErrorMessage
    /\ ffmpeg = None
    /\ outputs = {}

\* C21: in every state of a job record the error field is set (not None)
\* exactly when the status is 'error'; and once the status is 'done' or
\* 'error' nothing of the record (status, phase, progress, total, error)
\* changes any more while it is in the store.
C21_TerminalRecordFrozen ==
    [][Present' =>
        /\ Job'.error # None <=> Job'.status = "error"
        /\ (Present /\ Job.status \in {"done", "error"}) => Job' = Job]_vars

\* The synthesis of a later chunk failed: the controller has ended, the
\* record says 'error' with the message, and keeps the progress reached.
C21_Witness ==
    /\ pc = "finished"
    /\ StatusIs("error")
    /\ Job.error = SynthesisFailed
    /\ Job.phase = "converting"
    /\ Job.progress >= 1

====
